---- MODULE Spec2Model ----
(***************************************************************************)
(* A model of the geepillow layout engine: Color and create                *)
(* (src/geepillow/colors.py), Block, ImageBlock, TextBlock and RowBlock    *)
(* (src/geepillow/blocks.py), Grid (src/geepillow/grids.py), EEImageBlock  *)
(* and EEImageCollectionGrid (src/geepillow/eeblocks.py), SimpleStrip      *)
(* (src/geepillow/strips.py), and the two functions that fetch,            *)
(* download_file (helpers.py) and from_eeimage (image.py).                 *)
(*                                                                         *)
(* One object is modelled at a time.  Its fields are the variables below;  *)
(* every property read and every setter of the Python classes is one       *)
(* action.  A read stores the name of the operation in `op`, the value it  *)
(* returned in `ret` and the exception it raised (or "none") in `err`.     *)
(*                                                                         *)
(* Numbers: pixel sizes are integers.  An opacity is a rational number,    *)
(* kept as a pair <<numerator, denominator>> with denominator > 0.         *)
(* A string that the code formats or parses is a sequence of one-character *)
(* strings.                                                                *)
(***************************************************************************)
EXTENDS Integers, Sequences, FiniteSets, TLC

\* ------------------------------------------------------------------------
\* Bounds of the model
\* ------------------------------------------------------------------------
MaxDim == 1

\* pixel extents of sources and blocks: small ones, and the ones of the tests
Dims == (1..MaxDim) \cup {100, 500, 1000}

Sizes == Dims \X Dims

\* opacities given to a Block: 0, 1/2, 1 and two out of range values
Opacities == {<<0, 1>>, <<1, 2>>, <<1, 1>>, <<-1, 100>>, <<101, 100>>}

\* ------------------------------------------------------------------------
\* colors.py
\* ------------------------------------------------------------------------
HexDigits == <<"0", "1", "2", "3", "4", "5", "6", "7",
               "8", "9", "A", "B", "C", "D", "E", "F">>

\* f"{n:02X}" for 0 <= n <= 255
Hex2(n) == <<HexDigits[(n \div 16) + 1], HexDigits[(n % 16) + 1]>>

\* int(x) of the rational a / b, b > 0: truncation toward zero
TruncDiv(a, b) == IF a >= 0 THEN a \div b ELSE -((-a) \div b)

COMMON == [red |-> <<255, 0, 0>>, green |-> <<0, 255, 0>>,
           blue |-> <<0, 0, 255>>, yellow |-> <<255, 255, 0>>,
           cyan |-> <<0, 255, 255>>, magenta |-> <<255, 0, 255>>,
           orange |-> <<255, 165, 0>>, white |-> <<255, 255, 255>>,
           black |-> <<0, 0, 0>>]

ColorNames == DOMAIN COMMON

\* Color.hex rejecting the two ends of the range as well
hex_raises_at_ends(opacity) == opacity[1] >= opacity[2] \/ opacity[1] <= 0

\* Color.hex raises ValueError when opacity > 1 or opacity < 0
hex_raises(opacity) == opacity[1] > opacity[2] \/ opacity[1] < 0

\* Color.hex with the alpha byte written before the channels
hex_alpha_first(color, opacity) ==
    <<"#">> \o Hex2(TruncDiv(opacity[1] * 255, opacity[2]))
            \o Hex2(color[1]) \o Hex2(color[2]) \o Hex2(color[3])

\* Color.hex: "#RRGGBB" followed by int(opacity * 255) as two hex digits
hex(color, opacity) ==
    <<"#">> \o Hex2(color[1]) \o Hex2(color[2]) \o Hex2(color[3])
            \o Hex2(TruncDiv(opacity[1] * 255, opacity[2]))

LowerDigits == <<"0", "1", "2", "3", "4", "5", "6", "7",
                 "8", "9", "a", "b", "c", "d", "e", "f">>

\* int(ch, 16) of one character: the value of a hexadecimal digit of either
\* case, -1 for a character int() rejects (any other letter, "#")
HexValue(ch) ==
    IF \E i \in 1..16 : HexDigits[i] = ch \/ LowerDigits[i] = ch
    THEN (CHOOSE i \in 1..16 : HexDigits[i] = ch \/ LowerDigits[i] = ch) - 1
    ELSE -1

\* int(x, 16) raises ValueError unless every character of x is a digit
int16_raises(x) == \E i \in DOMAIN x : HexValue(x[i]) < 0

\* int(x, 16) of a slice of one or two hexadecimal digits
int16(x) ==
    IF Len(x) = 1 THEN HexValue(x[1])
    ELSE 16 * HexValue(x[1]) + HexValue(x[2])

\* str.lstrip("#"): every leading "#" is removed
RECURSIVE lstrip(_)
lstrip(s) == IF s # <<>> /\ Head(s) = "#" THEN lstrip(Tail(s)) ELSE s

\* from_hex without the slice hex_color[0:6]
keep_all(s) == s

\* hex_color[0:6]
first_six(s) == SubSeq(s, 1, IF Len(s) < 6 THEN Len(s) ELSE 6)

\* Color.from_hex: the exception raised and the (red, green, blue) of the
\* Color returned.  lv // 3 = 0 makes range() raise ValueError, a slice that
\* is no hexadecimal number makes int() raise ValueError, and 4 or 5
\* characters give Color() 4 or 5 arguments, a TypeError
from_hex(s) ==
    LET hex_color == first_six(lstrip(s))
        lv == Len(hex_color)
        step == lv \div 3
        convert(i) == int16(SubSeq(hex_color, i + 1, i + step))
    IN  IF step = 0 THEN [err |-> "ValueError", val |-> <<>>]
        ELSE IF int16_raises(hex_color)
        THEN [err |-> "ValueError", val |-> <<>>]
        ELSE IF lv \in {4, 5} THEN [err |-> "TypeError", val |-> <<>>]
        ELSE [err |-> "none",
              val |-> <<convert(0), convert(step), convert(2 * step)>>]

\* str.lower() of one character, for the letters the model uses
LOWER == [A |-> "a", B |-> "b", C |-> "c", D |-> "d", E |-> "e", F |-> "f",
          R |-> "r", G |-> "g"]

lower(s) == [i \in DOMAIN s |-> IF s[i] \in DOMAIN LOWER THEN LOWER[s[i]]
                                 ELSE s[i]]

\* the characters of a string as one string, to look a name up in COMMON
RECURSIVE Join(_)
Join(s) == IF s = <<>> THEN "" ELSE Head(s) \o Join(Tail(s))

\* Color.__init__ raises ValueError for a channel outside 0..255
Color_raises(channels) == \E i \in DOMAIN channels :
                              channels[i] < 0 \/ channels[i] > 255

\* color_from_string: a name of COMMON in any case, else Color.from_hex
color_from_string(string) ==
    IF Join(lower(string)) \in ColorNames
    THEN [err |-> "none", val |-> COMMON[Join(lower(string))]]
    ELSE from_hex(lower(string))

\* an argument of create: its Python type, its characters when it is a
\* string and its numbers when it is a list, a tuple, a Color or a number
Arg(kind, chars, nums) == [kind |-> kind, chars |-> chars, nums |-> nums]

\* isinstance(color, list)
list_types == {"list"}

\* colors.create: the dispatcher on the type of the argument
create(color) ==
    IF color.kind = "str" THEN color_from_string(color.chars)
    ELSE IF color.kind \in list_types
    THEN IF Len(color.nums) # 3 THEN [err |-> "TypeError", val |-> <<>>]
         ELSE IF Color_raises(color.nums)
         THEN [err |-> "ValueError", val |-> <<>>]
         ELSE [err |-> "none", val |-> color.nums]
    ELSE IF color.kind = "Color" THEN [err |-> "none", val |-> color.nums]
    ELSE [err |-> "ValueError", val |-> <<>>]

\* ------------------------------------------------------------------------
\* State
\* ------------------------------------------------------------------------
VARIABLES
    background_color,    \* Block._background_color, an (r, g, b) triple
    background_opacity,  \* Block.background_opacity
    opacity_given,       \* ghost: an opacity was passed or assigned
    size,                \* Block._size
    width,               \* Block._width
    height,              \* Block._height
    image,               \* ImageBlock._image: the size of the source raster
    element,             \* ImageBlock._element: the size of the element
    position,            \* ImageBlock.position
    fit_block,           \* ImageBlock.fit_block
    keep_proportion,     \* ImageBlock.keep_proportion
    blocks,              \* Grid._blocks: rows of child blocks or None
    x_space,             \* Grid.x_space
    y_space,             \* Grid.y_space
    pc,                  \* "new" while __init__ runs, then "ready" or "failed"
    blocklist,           \* RowBlock.blocklist: child blocks or None
    proxy_block,         \* RowBlock._proxy_block: the size of the proxy Block
    rgb,                 \* a Color instance: (red, green, blue)
    arg,                 \* the arguments of the call a caller makes
    font,                \* TextBlock._font: a font, its name and size
    font_size,           \* TextBlock.font_size
    image_font,          \* the font TextBlock._image was drawn with
    second_row,          \* another RowBlock, built apart from the one read
    requests,            \* the number of calls of requests.get so far
    status_code,         \* response.status_code of the last answer
    op,                  \* the last operation called on the object
    ret,                 \* the value it returned
    err                  \* the exception it raised, or "none"

blockVars == <<background_color, background_opacity, opacity_given,
               size, width, height>>

imageVars == <<image, element, position, fit_block, keep_proportion>>

gridVars == <<blocks, x_space, y_space, pc>>

\* the fields of the objects of the other classes: RowBlock and Color
textVars == <<font, font_size, image_font>>

netVars == <<requests, status_code>>

otherVars ==
    <<blocklist, proxy_block, rgb, arg, textVars, second_row, netVars>>

vars == <<background_color, background_opacity, opacity_given, size, width,
          height, image, element, position, fit_block, keep_proportion,
          blocks, x_space, y_space, pc, blocklist, proxy_block, rgb, arg,
          font, font_size, image_font, second_row, requests, status_code,
          op, ret, err>>

\* the value of `ret` when the operation returned nothing or raised
NoValue == <<>>

\* the object is not a Grid: the Grid fields do not exist
NoGrid ==
    /\ blocks = <<>>
    /\ x_space = 0
    /\ y_space = 0
    /\ pc = "ready"

\* a font: the file it was loaded from and its size
Font(name, sz) == [name |-> name, size |-> sz]

\* no second RowBlock was built
NoSecond == [blocklist |-> <<>>, x_space |-> 0, default_proxy |-> FALSE]

\* no request was made
NoNet ==
    /\ requests = 0
    /\ status_code = 0

\* the object is not a TextBlock
NoText ==
    /\ font = Font("", 0)
    /\ font_size = 0
    /\ image_font = Font("", 0)

\* the object is neither a RowBlock nor a Color
NoOther ==
    /\ blocklist = <<>>
    /\ proxy_block = <<0, 0>>
    /\ rgb = <<>>
    /\ arg = <<>>
    /\ NoText
    /\ second_row = NoSecond
    /\ NoNet

\* ------------------------------------------------------------------------
\* blocks.py: Block
\* ------------------------------------------------------------------------
DEFAULT_SIZE == <<500, 500>>

\* default of the parameter background_opacity of Block.__init__
DEFAULT_OPACITY == <<0, 1>>

\* Block.__init__(size, background_color, background_opacity)
BlockInit(sz, color, opacity, given) ==
    /\ background_color = COMMON[color]
    /\ background_opacity = opacity
    /\ opacity_given = given
    /\ size = sz
    /\ width = sz[1]
    /\ height = sz[2]

\* Block.background_hex
background_hex == hex(background_color, background_opacity)

\* the object is a plain Block: the ImageBlock fields do not exist
NoImage == <<0, 0>>

NoPosition == [isstr |-> FALSE, name |-> "", at |-> <<0, 0>>]

\* colours given to the blocks of the model
ColorArgs == {"white", "blue", "red"}

InitBlock ==
    /\ \E sz \in Sizes \cup {DEFAULT_SIZE}, color \in ColorArgs :
          \/ BlockInit(sz, color, DEFAULT_OPACITY, FALSE)
          \/ \E o \in Opacities : BlockInit(sz, color, o, TRUE)
    /\ image = NoImage
    /\ element = NoImage
    /\ position = NoPosition
    /\ fit_block = FALSE
    /\ keep_proportion = FALSE
    /\ NoGrid
    /\ NoOther
    /\ op = "__init__"
    /\ ret = NoValue
    /\ err = "none"

\* size setter
SetSize(sz) ==
    /\ size' = sz
    /\ width' = sz[1]
    /\ height' = sz[2]
    /\ op' = "size="
    /\ ret' = NoValue
    /\ err' = "none"
    /\ UNCHANGED <<background_color, background_opacity, opacity_given>>
    /\ UNCHANGED imageVars
    /\ UNCHANGED gridVars
    /\ UNCHANGED otherVars

\* Block.set_size
set_size(sz) ==
    /\ size' = sz
    /\ width' = sz[1]
    /\ height' = sz[2]
    /\ op' = "set_size"
    /\ ret' = NoValue
    /\ err' = "none"
    /\ UNCHANGED <<background_color, background_opacity, opacity_given>>
    /\ UNCHANGED imageVars
    /\ UNCHANGED gridVars
    /\ UNCHANGED otherVars

\* width setter: size[0] = width
SetWidth(w) ==
    /\ width' = w
    /\ size' = <<w, size[2]>>
    /\ op' = "width="
    /\ ret' = NoValue
    /\ err' = "none"
    /\ UNCHANGED <<background_color, background_opacity, opacity_given, height>>
    /\ UNCHANGED imageVars
    /\ UNCHANGED gridVars
    /\ UNCHANGED otherVars

\* the _size left by the height setter: size[0] = height
height_setter_size(h) == <<h, size[2]>>

\* height setter
SetHeight(h) ==
    /\ height' = h
    /\ size' = height_setter_size(h)
    /\ op' = "height="
    /\ ret' = NoValue
    /\ err' = "none"
    /\ UNCHANGED <<background_color, background_opacity, opacity_given, width>>
    /\ UNCHANGED imageVars
    /\ UNCHANGED gridVars
    /\ UNCHANGED otherVars

\* background_color setter
SetBackgroundColor(color) ==
    /\ background_color' = COMMON[color]
    /\ op' = "background_color="
    /\ ret' = NoValue
    /\ err' = "none"
    /\ UNCHANGED <<background_opacity, opacity_given, size, width, height>>
    /\ UNCHANGED imageVars
    /\ UNCHANGED gridVars
    /\ UNCHANGED otherVars

\* background_opacity is a plain attribute
SetBackgroundOpacity(o) ==
    /\ background_opacity' = o
    /\ opacity_given' = TRUE
    /\ op' = "background_opacity="
    /\ ret' = NoValue
    /\ err' = "none"
    /\ UNCHANGED <<background_color, size, width, height>>
    /\ UNCHANGED imageVars
    /\ UNCHANGED gridVars
    /\ UNCHANGED otherVars

\* read of Block.background_hex
ReadBackgroundHex ==
    /\ op' = "background_hex"
    /\ IF hex_raises(background_opacity)
       THEN ret' = NoValue /\ err' = "ValueError"
       ELSE ret' = background_hex /\ err' = "none"
    /\ UNCHANGED blockVars
    /\ UNCHANGED imageVars
    /\ UNCHANGED gridVars
    /\ UNCHANGED otherVars

\* read of Block.image: background_image(), a canvas of self.size
ReadBlockImage ==
    /\ op' = "image"
    /\ IF hex_raises(background_opacity)
       THEN ret' = NoValue /\ err' = "ValueError"
       ELSE ret' = [canvas |-> size, fill |-> background_hex] /\ err' = "none"
    /\ UNCHANGED blockVars
    /\ UNCHANGED imageVars
    /\ UNCHANGED gridVars
    /\ UNCHANGED otherVars

NextBlock ==
    \/ \E sz \in Sizes : SetSize(sz)
    \/ \E sz \in Sizes : set_size(sz)
    \/ \E w \in Dims : SetWidth(w)
    \/ \E h \in Dims : SetHeight(h)
    \/ \E color \in ColorArgs : SetBackgroundColor(color)
    \/ \E o \in Opacities : SetBackgroundOpacity(o)
    \/ ReadBackgroundHex
    \/ ReadBlockImage

SpecBlock == InitBlock /\ [][NextBlock]_vars

\* ------------------------------------------------------------------------
\* blocks.py: ImageBlock
\* ------------------------------------------------------------------------
\* the keys of options with an alias "middle" of the last one added
Anchors_with_middle ==
    {"top-left", "top-center", "top-right",
     "center-left", "center-center", "center-right",
     "bottom-left", "bottom-center", "bottom-right", "middle"}

Anchors == {"top-left", "top-center", "top-right",
            "center-left", "center-center", "center-right",
            "bottom-left", "bottom-center", "bottom-right"}

NamedPos(n) == [isstr |-> TRUE, name |-> n, at |-> <<0, 0>>]

TuplePos(p) == [isstr |-> FALSE, name |-> "", at |-> p]

\* positions given to an ImageBlock: the nine anchors, an unknown name and
\* an explicit offset
Positions == {NamedPos(n) : n \in Anchors \cup {"middle"}}
                 \cup {TuplePos(<<1, 1>>)}

\* ImageBlock.xy: x_space and y_space are taken from the source raster
x_space_xy == width - image[1]

y_space_xy == height - image[2]

\* the dictionary `options` of ImageBlock.xy, after int() of both components
options ==
    [n \in Anchors |->
        <<CASE n \in {"top-left", "center-left", "bottom-left"} -> 0
            [] n \in {"top-center", "center-center", "bottom-center"}
                 -> TruncDiv(x_space_xy, 2)
            [] OTHER -> x_space_xy,
          CASE n \in {"top-left", "top-center", "top-right"} -> 0
            [] n \in {"center-left", "center-center", "center-right"}
                 -> TruncDiv(y_space_xy, 2)
            [] OTHER -> y_space_xy>>]

\* ImageBlock.xy raises KeyError for a string that is not a key of options
xy_raises == position.isstr /\ position.name \notin Anchors

\* ImageBlock.xy
xy == IF position.isstr THEN options[position.name] ELSE position.at

\* Image.resize raises ValueError unless both extents are positive
resize_raises(sz) == sz[1] < 1 \/ sz[2] < 1

\* the comparison of is_widther reversed
is_widther_reversed == (xy[1] + image[1]) < size[1]

is_widther == (xy[1] + image[1]) > size[1]

is_heigher == (xy[2] + image[2]) > size[2]

\* ImageBlock.element with keep_proportion False: the two resizes, each of
\* the original extents elw, elh
element_deform ==
    LET first == <<size[1] - xy[1], image[2]>>
        second == <<image[1], size[2] - xy[2]>>
        e1 == IF is_widther THEN first ELSE image
    IN  IF is_widther /\ resize_raises(first)
        THEN [err |-> "ValueError", val |-> image]
        ELSE IF is_heigher /\ resize_raises(second)
        THEN [err |-> "ValueError", val |-> e1]
        ELSE [err |-> "none", val |-> IF is_heigher THEN second ELSE e1]

\* ImageBlock.element with keep_proportion True; proportion = elw / elh, so
\* int(new_width / proportion) = int(new_width * elh / elw) and
\* int(new_height * proportion) = int(new_height * elw / elh)
element_keep ==
    LET new_width == size[1] - xy[1]
        first == <<new_width, TruncDiv(new_width * image[2], image[1])>>
        e1 == IF is_widther THEN first ELSE image
        new_height == size[2] - xy[2]
        second == <<TruncDiv(new_height * image[1], image[2]), new_height>>
        higher == (xy[2] + e1[2]) > size[2]
    IN  IF is_widther /\ resize_raises(first)
        THEN [err |-> "ValueError", val |-> image]
        ELSE IF higher /\ resize_raises(second)
        THEN [err |-> "ValueError", val |-> e1]
        ELSE [err |-> "none", val |-> IF higher THEN second ELSE e1]

\* ImageBlock.element, once xy has not raised: the exception and the value
\* left in self._element
element_result ==
    IF ~fit_block THEN [err |-> "none", val |-> image]
    ELSE IF ~keep_proportion THEN element_deform
    ELSE element_keep

\* ImageBlock.__init__(image, position, fit_block, keep_proportion, size);
\* sz = NoImage stands for size=None
InitImage ==
    /\ \E img \in Sizes, sz \in Sizes \cup {NoImage} :
          /\ image = img
          /\ element = img
          /\ BlockInit(IF sz = NoImage THEN img ELSE sz, "white",
                       DEFAULT_OPACITY, FALSE)
    /\ position \in Positions
    /\ fit_block \in BOOLEAN
    /\ keep_proportion \in BOOLEAN
    /\ NoGrid
    /\ NoOther
    /\ op = "__init__"
    /\ ret = NoValue
    /\ err = "none"

SetPosition(p) ==
    /\ position' = p
    /\ op' = "position="
    /\ ret' = NoValue
    /\ err' = "none"
    /\ UNCHANGED <<image, element, fit_block, keep_proportion>>
    /\ UNCHANGED blockVars
    /\ UNCHANGED gridVars
    /\ UNCHANGED otherVars

SetFitBlock(b) ==
    /\ fit_block' = b
    /\ op' = "fit_block="
    /\ ret' = NoValue
    /\ err' = "none"
    /\ UNCHANGED <<image, element, position, keep_proportion>>
    /\ UNCHANGED blockVars
    /\ UNCHANGED gridVars
    /\ UNCHANGED otherVars

SetKeepProportion(b) ==
    /\ keep_proportion' = b
    /\ op' = "keep_proportion="
    /\ ret' = NoValue
    /\ err' = "none"
    /\ UNCHANGED <<image, element, position, fit_block>>
    /\ UNCHANGED blockVars
    /\ UNCHANGED gridVars
    /\ UNCHANGED otherVars

\* read of ImageBlock.xy
ReadXY ==
    /\ op' = "xy"
    /\ IF xy_raises
       THEN ret' = NoValue /\ err' = "KeyError"
       ELSE ret' = xy /\ err' = "none"
    /\ UNCHANGED imageVars
    /\ UNCHANGED blockVars
    /\ UNCHANGED gridVars
    /\ UNCHANGED otherVars

\* a read of element that keeps the resized copy as the source image
ReadElement_in_place ==
    /\ op' = "element"
    /\ IF xy_raises
       THEN element' = image /\ image' = image
            /\ ret' = NoValue /\ err' = "KeyError"
       ELSE /\ element' = element_result.val
            /\ image' = element_result.val
            /\ err' = element_result.err
            /\ ret' = IF element_result.err = "none"
                      THEN element_result.val ELSE NoValue
    /\ UNCHANGED <<position, fit_block, keep_proportion>>
    /\ UNCHANGED blockVars
    /\ UNCHANGED gridVars
    /\ UNCHANGED otherVars

\* read of ImageBlock.element
ReadElement ==
    /\ op' = "element"
    /\ IF xy_raises
       THEN element' = image /\ ret' = NoValue /\ err' = "KeyError"
       ELSE /\ element' = element_result.val
            /\ err' = element_result.err
            /\ ret' = IF element_result.err = "none"
                      THEN element_result.val ELSE NoValue
    /\ UNCHANGED <<image, position, fit_block, keep_proportion>>
    /\ UNCHANGED blockVars
    /\ UNCHANGED gridVars
    /\ UNCHANGED otherVars

\* read of ImageBlock.image: the background canvas with the element pasted
\* at xy
ReadImage ==
    /\ op' = "image"
    /\ IF hex_raises(background_opacity)
       THEN element' = element /\ ret' = NoValue /\ err' = "ValueError"
       ELSE IF xy_raises
       THEN element' = image /\ ret' = NoValue /\ err' = "KeyError"
       ELSE /\ element' = element_result.val
            /\ err' = element_result.err
            /\ ret' = IF element_result.err = "none"
                      THEN [canvas |-> size, fill |-> background_hex,
                            at |-> xy, pasted |-> element_result.val]
                      ELSE NoValue
    /\ UNCHANGED <<image, position, fit_block, keep_proportion>>
    /\ UNCHANGED blockVars
    /\ UNCHANGED gridVars
    /\ UNCHANGED otherVars

NextImage ==
    \/ \E p \in Positions : SetPosition(p)
    \/ \E b \in BOOLEAN : SetFitBlock(b)
    \/ \E b \in BOOLEAN : SetKeepProportion(b)
    \/ ReadXY
    \/ ReadElement
    \/ ReadImage

SpecImage == InitImage /\ [][NextImage]_vars

\* ------------------------------------------------------------------------
\* grids.py: Grid
\* ------------------------------------------------------------------------
MaxRows == 2

MaxCols == 2

MaxCells == 3

MaxSpace == 0

\* x_space and y_space default to 10
DEFAULT_SPACE == 10

\* gaps given to a Grid: a small one and the default
Spaces == {MaxSpace, DEFAULT_SPACE}

\* a child block, seen through the attributes the Grid reads: width, height
\* and image, a raster of (width, height)
Child(w, h) == [isnone |-> FALSE, width |-> w, height |-> h]

NoneCell == [isnone |-> TRUE, width |-> 0, height |-> 0]

\* the children given to a Grid
Children == {Child(100, 50), Child(200, 80), Child(150, 60)}

Cells == Children \cup {NoneCell}

\* the number of cells of the first r rows of a grid with row lengths s
RECURSIVE CellsIn(_, _)
CellsIn(s, r) == IF r = 0 THEN 0 ELSE CellsIn(s, r - 1) + s[r]

\* the row lengths of the grids of the model: jagged, empty rows included
Shapes ==
    {s \in UNION {[1..n -> 0..MaxCols] : n \in 0..MaxRows} :
        CellsIn(s, Len(s)) <= MaxCells}

\* the lists of lists given to a Grid: every shape, filled with every choice
\* of children and None
GridArgs ==
    UNION {{[r \in 1..Len(s) |-> [c \in 1..s[r] |-> f[CellsIn(s, r - 1) + c]]] :
               f \in [1..CellsIn(s, Len(s)) -> Cells]} : s \in Shapes}

\* max() of a non-empty collection of integers
Max(S) == CHOOSE m \in S : \A x \in S : x <= m

\* the list comprehension of Grid.row_height: the heights of the non-null
\* blocks of row n_row (rows are counted from 0)
row_heights(n_row) ==
    {blocks[n_row + 1][c].height :
        c \in {c \in DOMAIN blocks[n_row + 1] : ~blocks[n_row + 1][c].isnone}}

\* Grid.row_height raises ValueError on max([])
row_height_raises(n_row) == row_heights(n_row) = {}

\* Grid.row_height
row_height(n_row) == Max(row_heights(n_row))

\* column_blocks of Grid.column_width: the rows that have an index n_column
column_rows(n_column) == {r \in DOMAIN blocks : Len(blocks[r]) > n_column}

\* column_widths reading block.height in place of block.width
column_widths_of_heights(n_column) ==
    {blocks[r][n_column + 1].height :
        r \in {r \in column_rows(n_column) : ~blocks[r][n_column + 1].isnone}}

\* the widths of the non-null blocks of column_blocks
column_widths(n_column) ==
    {blocks[r][n_column + 1].width :
        r \in {r \in column_rows(n_column) : ~blocks[r][n_column + 1].isnone}}

\* Grid.column_width raises ValueError on max([])
column_width_raises(n_column) == column_widths(n_column) = {}

\* Grid.column_width
column_width(n_column) == Max(column_widths(n_column))

\* n_columns of Grid.grid_size
n_columns == Max({Len(blocks[r]) : r \in DOMAIN blocks})

\* sum([self.row_height(i) + self.y_space for i in range(n)])
RECURSIVE sum_heights(_)
sum_heights(n) ==
    IF n = 0 THEN 0 ELSE sum_heights(n - 1) + row_height(n - 1) + y_space

\* sum([self.column_width(i) + self.x_space for i in range(n)])
RECURSIVE sum_widths(_)
sum_widths(n) ==
    IF n = 0 THEN 0 ELSE sum_widths(n - 1) + column_width(n - 1) + x_space

\* Grid.grid_size raises ValueError: a row without a non-null block, no row
\* at all, or a column without a non-null block
grid_size_raises ==
    \/ \E r \in DOMAIN blocks : row_height_raises(r - 1)
    \/ blocks = <<>>
    \/ \E c \in 0..(n_columns - 1) : column_width_raises(c)

\* Grid.grid_size
grid_size == <<sum_widths(n_columns), sum_heights(Len(blocks))>>

\* next_width advancing by the width of the block, not of its column
next_width_by_block(pos, n_col, block) == pos[1] + block.width + x_space

\* the x of the next cell of the row in Grid.grid_image
next_width(pos, n_col, block) == pos[1] + column_width(n_col) + x_space

\* the two loops of Grid.grid_image from the cell (n_row, n_col) on: the
\* pastes made, and AttributeError at the first None (None has no image)
RECURSIVE paste_loop(_, _, _, _)
paste_loop(n_row, n_col, pos, acc) ==
    IF n_row >= Len(blocks) THEN [err |-> "none", pastes |-> acc]
    ELSE IF n_col >= Len(blocks[n_row + 1])
    THEN paste_loop(n_row + 1, 0,
                    <<0, pos[2] + row_height(n_row) + y_space>>, acc)
    ELSE LET block == blocks[n_row + 1][n_col + 1]
         IN  IF block.isnone
             THEN [err |-> "AttributeError", pastes |-> acc]
             ELSE paste_loop(n_row, n_col + 1,
                      <<next_width(pos, n_col, block), pos[2]>>,
                      Append(acc, [row |-> n_row, col |-> n_col, at |-> pos,
                                   size |-> <<block.width, block.height>>]))

\* Grid.grid_image: the exception raised, the canvas and the pastes
grid_image ==
    IF grid_size_raises
    THEN [err |-> "ValueError", canvas |-> <<0, 0>>, pastes |-> <<>>]
    ELSE [err |-> paste_loop(0, 0, <<0, 0>>, <<>>).err,
          canvas |-> grid_size,
          pastes |-> paste_loop(0, 0, <<0, 0>>, <<>>).pastes]

\* the first assignments of Grid.__init__: the fields of the Grid
InitGrid ==
    /\ blocks \in GridArgs
    /\ x_space \in Spaces
    /\ y_space \in Spaces
    /\ pc = "new"
    /\ NoOther
    /\ background_color = COMMON["white"]
    /\ background_opacity = <<1, 1>>
    /\ opacity_given = TRUE
    /\ size = <<0, 0>>
    /\ width = 0
    /\ height = 0
    /\ image = NoImage
    /\ element = NoImage
    /\ position = NoPosition
    /\ fit_block = FALSE
    /\ keep_proportion = FALSE
    /\ op = "Grid"
    /\ ret = NoValue
    /\ err = "none"

\* the rest of Grid.__init__: grid_image() and ImageBlock.__init__ on it,
\* with the default position, fit_block, keep_proportion and size=None
GridInit ==
    /\ pc = "new"
    /\ op' = "__init__"
    /\ UNCHANGED <<blocks, x_space, y_space>>
    /\ UNCHANGED otherVars
    /\ UNCHANGED <<background_color, background_opacity, opacity_given>>
    /\ IF grid_image.err # "none"
       THEN /\ pc' = "failed"
            /\ err' = grid_image.err
            /\ ret' = NoValue
            /\ UNCHANGED <<size, width, height>>
            /\ UNCHANGED imageVars
       ELSE /\ pc' = "ready"
            /\ err' = "none"
            /\ ret' = grid_image
            /\ image' = grid_image.canvas
            /\ element' = grid_image.canvas
            /\ size' = grid_image.canvas
            /\ width' = grid_image.canvas[1]
            /\ height' = grid_image.canvas[2]
            /\ position' = NamedPos("center-center")
            /\ fit_block' = TRUE
            /\ keep_proportion' = TRUE

\* call of Grid.row_height(n)
ReadRowHeight(n) ==
    /\ pc = "ready"
    /\ op' = "row_height"
    /\ IF n >= Len(blocks)
       THEN ret' = NoValue /\ err' = "IndexError"
       ELSE IF row_height_raises(n)
       THEN ret' = NoValue /\ err' = "ValueError"
       ELSE ret' = [n |-> n, val |-> row_height(n)] /\ err' = "none"
    /\ UNCHANGED <<blockVars, imageVars, gridVars>>
    /\ UNCHANGED otherVars

\* call of Grid.column_width(n)
ReadColumnWidth(n) ==
    /\ pc = "ready"
    /\ op' = "column_width"
    /\ IF column_width_raises(n)
       THEN ret' = NoValue /\ err' = "ValueError"
       ELSE ret' = [n |-> n, val |-> column_width(n)] /\ err' = "none"
    /\ UNCHANGED <<blockVars, imageVars, gridVars>>
    /\ UNCHANGED otherVars

\* read of Grid.grid_size
ReadGridSize ==
    /\ pc = "ready"
    /\ op' = "grid_size"
    /\ IF grid_size_raises
       THEN ret' = NoValue /\ err' = "ValueError"
       ELSE ret' = grid_size /\ err' = "none"
    /\ UNCHANGED <<blockVars, imageVars, gridVars>>
    /\ UNCHANGED otherVars

\* call of Grid.grid_image()
CallGridImage ==
    /\ pc = "ready"
    /\ op' = "grid_image"
    /\ err' = grid_image.err
    /\ ret' = IF grid_image.err = "none" THEN grid_image ELSE NoValue
    /\ UNCHANGED <<blockVars, imageVars, gridVars>>
    /\ UNCHANGED otherVars

NextGrid ==
    \/ GridInit
    \/ \E n \in 0..MaxRows : ReadRowHeight(n)
    \/ \E n \in 0..MaxCols : ReadColumnWidth(n)
    \/ ReadGridSize
    \/ CallGridImage
    \/ (pc = "ready" /\ ReadImage)

SpecGrid == InitGrid /\ [][NextGrid]_vars

\* ------------------------------------------------------------------------
\* grids.py: a Grid whose children are changed after the Grid is built
\* ------------------------------------------------------------------------
\* no cell is None: the Grid can be built
AllChildren(b) == \A r \in DOMAIN b : \A c \in DOMAIN b[r] : ~b[r][c].isnone

\* Grid(blocks) with the default gaps
InitGridOfChildren ==
    /\ InitGrid
    /\ AllChildren(blocks)
    /\ x_space = DEFAULT_SPACE
    /\ y_space = DEFAULT_SPACE

\* blocks[r][c].size = (w, h): the size setter of a child block; the Grid
\* holds the same object in _blocks, none of its own fields is assigned
SetChildSize(r, c, sz) ==
    /\ pc = "ready"
    /\ r \in DOMAIN blocks
    /\ c \in DOMAIN blocks[r]
    /\ ~blocks[r][c].isnone
    /\ blocks' = [blocks EXCEPT ![r][c] = Child(sz[1], sz[2])]
    /\ op' = "child.size="
    /\ ret' = NoValue
    /\ err' = "none"
    /\ UNCHANGED <<x_space, y_space, pc>>
    /\ UNCHANGED blockVars
    /\ UNCHANGED imageVars
    /\ UNCHANGED otherVars

\* the sizes assigned to a child
ChildSizes == {<<ch.width, ch.height>> : ch \in Children}

NextGridOfChildren ==
    \/ GridInit
    \/ \E r \in 1..MaxRows, c \in 1..MaxCols, sz \in ChildSizes :
           SetChildSize(r, c, sz)
    \/ CallGridImage
    \/ (pc = "ready" /\ ReadImage)

SpecGridOfChildren == InitGridOfChildren /\ [][NextGridOfChildren]_vars

\* ------------------------------------------------------------------------
\* blocks.py: TextBlock
\* ------------------------------------------------------------------------
\* the text of the block, one sequence of characters per line
Text == << <<"s", "i", "m", "p", "l", "e">> >>

FontNames == {"OpenSans-Regular", "OpenSans-Bold"}

FontSizes == {12, 24}

\* the font objects a caller holds
Fonts == {Font(n, s) : n \in FontNames, s \in FontSizes}

\* fonts.create(font, size): a font name is loaded at the size, a font
\* object of another size is loaded again at the size
fonts_create(f, sz) == Font(f.name, sz)

\* font.getbbox(line): the box of a line grows with the size of the font,
\* and a bold face is wider than a regular one
getbbox(f, line) ==
    <<0, 0,
      (Len(line) * f.size) \div 2
          + (IF f.name = "OpenSans-Bold" THEN Len(line) ELSE 0),
      f.size>>

\* TextBlock.text_height
text_height(f) ==
    LET alt[i \in 0..Len(Text)] ==
            IF i = 0 THEN 0
            ELSE alt[i - 1] + getbbox(f, Text[i])[4] + getbbox(f, Text[i])[2]
    IN alt[Len(Text)]

\* TextBlock.text_width
text_width(f) == Max({getbbox(f, Text[i])[3] : i \in 1..Len(Text)})

\* TextBlock.create_text_image(): the size of the raster; the font it is
\* drawn with is kept in image_font
create_text_image(f) == <<text_width(f), text_height(f)>>

\* sizes given to the text blocks of the model
TextSizes == {<<100, 100>>, <<40, 20>>}

\* TextBlock.__init__(text, position, font, font_size, size)
InitText ==
    /\ \E f \in Fonts, fs \in FontSizes, sz \in TextSizes \cup {NoImage} :
          /\ font_size = fs
          /\ font = fonts_create(f, fs)
          /\ image_font = fonts_create(f, fs)
          /\ image = create_text_image(fonts_create(f, fs))
          /\ element = create_text_image(fonts_create(f, fs))
          /\ BlockInit(IF sz = NoImage
                       THEN create_text_image(fonts_create(f, fs)) ELSE sz,
                       "white", DEFAULT_OPACITY, FALSE)
    /\ position \in {NamedPos("center-center"), NamedPos("top-left")}
    /\ fit_block \in BOOLEAN
    /\ keep_proportion \in BOOLEAN
    /\ NoGrid
    /\ blocklist = <<>>
    /\ proxy_block = <<0, 0>>
    /\ rgb = <<>>
    /\ arg = <<>>
    /\ second_row = NoSecond
    /\ NoNet
    /\ op = "__init__"
    /\ ret = NoValue
    /\ err = "none"

textFrame ==
    /\ UNCHANGED <<image, position, fit_block, keep_proportion>>
    /\ UNCHANGED blockVars
    /\ UNCHANGED gridVars
    /\ UNCHANGED <<blocklist, proxy_block, rgb, arg, second_row, netVars>>

\* TextBlock.font = f, f a font object
SetFont(f) ==
    /\ font_size' = f.size
    /\ font' = fonts_create(f, f.size)
    /\ op' = "font="
    /\ ret' = NoValue
    /\ err' = "none"
    /\ UNCHANGED <<element, image_font>>
    /\ textFrame

\* TextBlock.font = name, name the name of a font
SetFontName(name) ==
    /\ font' = fonts_create(Font(name, 0), font_size)
    /\ op' = "font="
    /\ ret' = NoValue
    /\ err' = "none"
    /\ UNCHANGED <<element, font_size, image_font>>
    /\ textFrame

\* read of TextBlock.element: the raster and the font it was drawn with
ReadTextElement ==
    /\ op' = "element"
    /\ IF xy_raises
       THEN element' = image /\ ret' = NoValue /\ err' = "KeyError"
       ELSE /\ element' = element_result.val
            /\ err' = element_result.err
            /\ ret' = IF element_result.err = "none"
                      THEN [pasted |-> element_result.val,
                            drawn_with |-> image_font]
                      ELSE NoValue
    /\ UNCHANGED textVars
    /\ textFrame

\* read of TextBlock.image
ReadTextImage ==
    /\ op' = "image"
    /\ IF hex_raises(background_opacity)
       THEN element' = element /\ ret' = NoValue /\ err' = "ValueError"
       ELSE IF xy_raises
       THEN element' = image /\ ret' = NoValue /\ err' = "KeyError"
       ELSE /\ element' = element_result.val
            /\ err' = element_result.err
            /\ ret' = IF element_result.err = "none"
                      THEN [canvas |-> size, fill |-> background_hex,
                            at |-> xy, pasted |-> element_result.val,
                            drawn_with |-> image_font]
                      ELSE NoValue
    /\ UNCHANGED textVars
    /\ textFrame

NextText ==
    \/ \E f \in Fonts : SetFont(f)
    \/ \E name \in FontNames : SetFontName(name)
    \/ ReadTextElement
    \/ ReadTextImage

SpecText == InitText /\ [][NextText]_vars

\* ------------------------------------------------------------------------
\* blocks.py: RowBlock
\* ------------------------------------------------------------------------
MaxRowLen == 3

\* the canvas of RowBlock.image is always created in this mode
ROW_MODE == "RGBA"

\* a child of a RowBlock: its width and height, and the pixel mode of the
\* raster it wraps
RowChild(w, h, m) == [isnone |-> FALSE, width |-> w, height |-> h, mode |-> m]

NoneEntry == [isnone |-> TRUE, width |-> 0, height |-> 0, mode |-> ""]

\* the entries given to a RowBlock
RowEntries == {RowChild(100, 100, "RGBA"), RowChild(200, 100, "RGBA"),
               RowChild(150, 100, "RGBA"), RowChild(200, 80, "RGB"),
               NoneEntry}

\* the lists given to a RowBlock, the empty one included
RowArgs == UNION {[1..n -> RowEntries] : n \in 0..MaxRowLen}

\* the list comprehension of RowBlock.height: the heights of the non-null
\* blocks
RowBlock_heights ==
    {blocklist[i].height : i \in {i \in DOMAIN blocklist : ~blocklist[i].isnone}}

\* RowBlock.height raises ValueError on max([])
RowBlock_height_raises == RowBlock_heights = {}

\* RowBlock.height
RowBlock_height == Max(RowBlock_heights)

\* RowBlock.final_blocklist reads proxy_block, and so height, for a None
final_blocklist_raises ==
    (\E i \in DOMAIN blocklist : blocklist[i].isnone) /\ RowBlock_height_raises

\* RowBlock.proxy_block: the proxy resized to (height, height)
proxy_size == <<RowBlock_height, RowBlock_height>>

\* RowBlock.final_blocklist: None replaced by the proxy block; the mode of
\* an entry is never read
final_blocklist ==
    [i \in DOMAIN blocklist |->
        IF blocklist[i].isnone
        THEN [isnone |-> FALSE, width |-> proxy_size[1],
              height |-> proxy_size[2], mode |-> ROW_MODE]
        ELSE blocklist[i]]

\* the size of the proxy after a read of final_blocklist
proxy_after ==
    IF (\E i \in DOMAIN blocklist : blocklist[i].isnone)
           /\ ~RowBlock_height_raises
    THEN proxy_size ELSE proxy_block

\* sum([block.width for block in self.final_blocklist]) over the first n
RECURSIVE blocks_width(_)
blocks_width(n) ==
    IF n = 0 THEN 0 ELSE blocks_width(n - 1) + final_blocklist[n].width

\* RowBlock.width with a gap counted after every block
RowBlock_width_trailing_gap ==
    blocks_width(Len(blocklist)) + Len(blocklist) * x_space

\* RowBlock.width
RowBlock_width ==
    blocks_width(Len(blocklist)) + (Len(blocklist) - 1) * x_space

\* RowBlock.size evaluates width, then height
RowBlock_size_raises == final_blocklist_raises \/ RowBlock_height_raises

\* RowBlock.size
RowBlock_size == <<RowBlock_width, RowBlock_height>>

\* the loop of RowBlock.image: block n is pasted at pos, then pos advances
\* by the width of the block and x_space
RECURSIVE row_pastes(_)
row_pastes(n) ==
    IF n = 0 THEN <<>>
    ELSE LET before == row_pastes(n - 1)
             pos == IF n = 1 THEN <<0, 0>>
                    ELSE <<before[n - 1].at[1] + final_blocklist[n - 1].width
                              + x_space, 0>>
         IN  Append(before,
                    [at |-> pos,
                     size |-> <<final_blocklist[n].width,
                                final_blocklist[n].height>>])

\* RowBlock.__init__(blocklist, x_space) with the default background and
\* the default proxy_block, a Block()
RowBlockInit ==
    /\ blocklist \in RowArgs
    /\ x_space \in Spaces
    /\ proxy_block = DEFAULT_SIZE
    /\ rgb = <<>>
    /\ arg = <<>>
    /\ NoText
    /\ background_color = COMMON["white"]
    /\ background_opacity = DEFAULT_OPACITY
    /\ opacity_given = FALSE
    /\ size = <<0, 0>>
    /\ width = 0
    /\ height = 0
    /\ image = NoImage
    /\ element = NoImage
    /\ position = NoPosition
    /\ fit_block = FALSE
    /\ keep_proportion = FALSE
    /\ blocks = <<>>
    /\ y_space = 0
    /\ pc = "ready"
    /\ op = "RowBlock"
    /\ ret = NoValue
    /\ err = "none"

\* one RowBlock, and no other container
InitRow == RowBlockInit /\ second_row = NoSecond /\ NoNet

rowFrame ==
    /\ UNCHANGED <<blockVars, imageVars, gridVars>>
    /\ UNCHANGED <<blocklist, rgb, arg, textVars, second_row, netVars>>

\* read of RowBlock.height
ReadRowBlockHeight ==
    /\ op' = "height"
    /\ IF RowBlock_height_raises
       THEN ret' = NoValue /\ err' = "ValueError"
       ELSE ret' = RowBlock_height /\ err' = "none"
    /\ UNCHANGED proxy_block
    /\ rowFrame

\* read of RowBlock.final_blocklist
ReadFinalBlocklist ==
    /\ op' = "final_blocklist"
    /\ IF final_blocklist_raises
       THEN ret' = NoValue /\ err' = "ValueError"
       ELSE ret' = final_blocklist /\ err' = "none"
    /\ proxy_block' = proxy_after
    /\ rowFrame

\* read of RowBlock.width
ReadRowBlockWidth ==
    /\ op' = "width"
    /\ IF final_blocklist_raises
       THEN ret' = NoValue /\ err' = "ValueError"
       ELSE ret' = RowBlock_width /\ err' = "none"
    /\ proxy_block' = proxy_after
    /\ rowFrame

\* read of RowBlock.size
ReadRowBlockSize ==
    /\ op' = "size"
    /\ IF RowBlock_size_raises
       THEN ret' = NoValue /\ err' = "ValueError"
       ELSE ret' = RowBlock_size /\ err' = "none"
    /\ proxy_block' = proxy_after
    /\ rowFrame

\* read of RowBlock.image: the canvas of RowBlock.size with every block of
\* final_blocklist pasted
ReadRowBlockImage ==
    /\ op' = "image"
    /\ IF hex_raises(background_opacity)
       THEN /\ ret' = NoValue /\ err' = "ValueError"
            /\ UNCHANGED proxy_block
       ELSE /\ proxy_block' = proxy_after
            /\ IF RowBlock_size_raises
               THEN ret' = NoValue /\ err' = "ValueError"
               ELSE /\ err' = "none"
                    /\ ret' = [canvas |-> RowBlock_size,
                               mode |-> ROW_MODE,
                               fill |-> background_hex,
                               pastes |-> row_pastes(Len(blocklist))]
    /\ rowFrame

\* assignment to the attribute background_opacity
SetRowOpacity(o) ==
    /\ op' = "background_opacity="
    /\ background_opacity' = o
    /\ opacity_given' = TRUE
    /\ ret' = NoValue
    /\ err' = "none"
    /\ UNCHANGED <<background_color, size, width, height>>
    /\ UNCHANGED <<imageVars, gridVars, otherVars>>

NextRow ==
    \/ ReadRowBlockHeight
    \/ ReadFinalBlocklist
    \/ ReadRowBlockWidth
    \/ ReadRowBlockSize
    \/ ReadRowBlockImage
    \/ \E o \in Opacities : SetRowOpacity(o)

SpecRow == InitRow /\ [][NextRow]_vars

\* ------------------------------------------------------------------------
\* blocks.py: two RowBlocks built apart from each other
\* ------------------------------------------------------------------------
\* the second RowBlock: its list, its gap, and whether it was built without
\* proxy_block. The default of the parameter proxy_block is one Block(),
\* made when the class is defined and given to every RowBlock built
\* without the argument: proxy_block is the size of that one object
SecondRows ==
    {[blocklist |-> b, x_space |-> DEFAULT_SPACE, default_proxy |-> d] :
        b \in {<<NoneEntry>>, <<RowChild(100, 100, "RGBA"), NoneEntry>>},
        d \in BOOLEAN}

\* the size of the second row's _proxy_block: the shared default, or a
\* Block() of its own
second_proxy_size ==
    IF second_row.default_proxy THEN proxy_block ELSE DEFAULT_SIZE

\* RowBlock(blocklist, x_space) and a second RowBlock
InitTwoRows == RowBlockInit /\ second_row \in SecondRows /\ NoNet

SpecTwoRows == InitTwoRows /\ [][NextRow]_vars

\* ------------------------------------------------------------------------
\* eeblocks.py: EEImageBlock
\* ------------------------------------------------------------------------
\* None, for the parameter size
NoSize == <<>>

\* the arguments of EEImageBlock(...): dimensions is one number, <<d>>, or
\* a tuple <<w, h>>; size is NoSize or a tuple
EEImageArgs ==
    {[dimensions |-> d, size |-> s, fit_block |-> f, keep_proportion |-> k] :
        d \in {<<500>>, DEFAULT_SIZE, <<300, 200>>},
        s \in {NoSize, <<1000, 1000>>, <<400, 400>>},
        f \in BOOLEAN, k \in BOOLEAN}

\* isinstance(dimensions, (int, float))
is_number(d) == Len(d) = 1

\* the size EEImageBlock.__init__ hands to ImageBlock.__init__: the elif
\* branch does not test size
EEImageBlock_size(d, s) ==
    IF s = NoSize /\ is_number(d) THEN <<d[1], d[1]>>
    ELSE IF ~is_number(d) THEN d
    ELSE s

\* the rasters from_eeimage can return for dimensions: a tuple is the
\* width and height of the thumbnail; one number is the larger side, the
\* other side follows the proportions of the region
Thumbnails(d) ==
    IF is_number(d)
    THEN {<<d[1], d[1]>>, <<d[1], d[1] \div 2>>, <<d[1] \div 2, d[1]>>}
    ELSE {d}

\* the caller holds the arguments, no object exists yet
InitEEImage ==
    /\ arg \in EEImageArgs
    /\ pc = "new"
    /\ blocks = <<>>
    /\ x_space = 0
    /\ y_space = 0
    /\ blocklist = <<>>
    /\ proxy_block = <<0, 0>>
    /\ rgb = <<>>
    /\ NoText
    /\ second_row = NoSecond
    /\ NoNet
    /\ background_color = COMMON["white"]
    /\ background_opacity = <<1, 1>>
    /\ opacity_given = TRUE
    /\ size = <<0, 0>>
    /\ width = 0
    /\ height = 0
    /\ image = NoImage
    /\ element = NoImage
    /\ position = NoPosition
    /\ fit_block = FALSE
    /\ keep_proportion = FALSE
    /\ op = "EEImageBlock"
    /\ ret = NoValue
    /\ err = "none"

\* EEImageBlock.__init__: the size is settled, the thumbnail is fetched;
\* from_eeimage raises RuntimeError when the answer is not 200 OK;
\* ImageBlock.__init__ takes the size of the raster when size is None
EEImageBlockInit ==
    /\ pc = "new"
    /\ op' = "__init__"
    /\ ret' = NoValue
    /\ UNCHANGED <<blocks, x_space, y_space>>
    /\ UNCHANGED otherVars
    /\ UNCHANGED <<background_color, background_opacity, opacity_given>>
    /\ \/ /\ pc' = "failed"
          /\ err' = "RuntimeError"
          /\ UNCHANGED <<size, width, height>>
          /\ UNCHANGED imageVars
       \/ \E raster \in Thumbnails(arg.dimensions) :
            LET sz == EEImageBlock_size(arg.dimensions, arg.size)
                block_size == IF sz = NoSize THEN raster ELSE sz
            IN  /\ pc' = "ready"
                /\ err' = "none"
                /\ image' = raster
                /\ element' = raster
                /\ size' = block_size
                /\ width' = block_size[1]
                /\ height' = block_size[2]
                /\ position' = NamedPos("center-center")
                /\ fit_block' = arg.fit_block
                /\ keep_proportion' = arg.keep_proportion

NextEEImage ==
    \/ EEImageBlockInit
    \/ (pc = "ready" /\ ReadElement)
    \/ (pc = "ready" /\ ReadImage)

SpecEEImage == InitEEImage /\ [][NextEEImage]_vars

\* ------------------------------------------------------------------------
\* eeblocks.py: EEImageCollectionGrid
\* ------------------------------------------------------------------------
MaxImages == 6

MaxGridSide == 3

\* None, for the parameters n_columns, n_rows and image_dimensions
NoNumber == 0

\* the default of the parameter dimensions
GRID_DIMENSIONS == <<3300, 2250>>

\* the arguments of EEImageCollectionGrid(...): the number of images of
\* the collection, n_columns, n_rows, image_dimensions, and whether the
\* server answers the requests for the thumbnails
EEGridArgs ==
    {[n_images |-> n, n_columns |-> c, n_rows |-> r, image_dimensions |-> d,
      answers |-> a] :
        n \in 1..MaxImages,
        c \in {NoNumber} \cup 1..MaxGridSide,
        r \in {NoNumber} \cup 1..MaxGridSide,
        d \in {NoNumber, 500, 1000},
        a \in BOOLEAN}

\* EEImageCollectionGrid.image_ids: the ids are counted from 0
image_ids == [i \in 1..arg.n_images |-> i - 1]

\* math.ceil(a / b) of two positive integers
ceil_div(a, b) == (a + b - 1) \div b

\* EEImageCollectionGrid.n_columns
grid_n_columns ==
    IF arg.n_columns # NoNumber THEN arg.n_columns
    ELSE IF arg.n_rows # NoNumber THEN ceil_div(Len(image_ids), arg.n_rows)
    ELSE IF arg.image_dimensions # NoNumber
    THEN (GRID_DIMENSIONS[1] + DEFAULT_SPACE)
             \div (arg.image_dimensions + DEFAULT_SPACE)
    ELSE 3

\* EEImageCollectionGrid.n_last
n_last == Len(image_ids) % grid_n_columns

\* EEImageCollectionGrid.n_rows
n_rows ==
    (IF arg.n_rows # NoNumber THEN arg.n_rows
     ELSE Len(image_ids) \div grid_n_columns)
        + (IF n_last > 0 THEN 1 ELSE 0)

\* EEImageCollectionGrid.image_dimensions: one side of the square
image_dimensions ==
    IF arg.image_dimensions # NoNumber THEN arg.image_dimensions
    ELSE LET w == (GRID_DIMENSIONS[1] - DEFAULT_SPACE * (grid_n_columns - 1))
                      \div grid_n_columns
             h == (GRID_DIMENSIONS[2] - DEFAULT_SPACE * (n_rows - 1))
                      \div n_rows
         IN  IF w <= h THEN w ELSE h

\* the for loop of make_blocks: columns blocks are added to row, from
\* image_ids[i] on; image_ids[i] raises IndexError past the end, and
\* make_image_block raises RuntimeError when the server does not answer
RECURSIVE make_row(_, _, _)
make_row(i, columns, row) ==
    IF columns = 0 THEN [err |-> "none", row |-> row]
    ELSE IF i >= Len(image_ids) THEN [err |-> "IndexError", row |-> row]
    ELSE IF ~arg.answers THEN [err |-> "RuntimeError", row |-> row]
    ELSE make_row(i + 1, columns - 1, Append(row, image_ids[i + 1]))

\* the test of the while loop of make_blocks raises IndexError:
\* grid_blocks[-1] is read in an empty list
last_row_raises(grid_blocks) ==
    Len(grid_blocks) = n_rows - 1 /\ grid_blocks = <<>>

\* the columns of the next row
next_columns(grid_blocks) ==
    IF /\ Len(grid_blocks) = n_rows - 1
       /\ Len(grid_blocks[Len(grid_blocks)]) = grid_n_columns
       /\ n_last > 0
    THEN n_last ELSE grid_n_columns

\* the while loop of make_blocks: the rows, each the ids of its blocks
RECURSIVE make_blocks_from(_, _)
make_blocks_from(i, grid_blocks) ==
    IF i >= Len(image_ids) THEN [err |-> "none", rows |-> grid_blocks]
    ELSE IF last_row_raises(grid_blocks)
    THEN [err |-> "IndexError", rows |-> grid_blocks]
    ELSE LET made == make_row(i, next_columns(grid_blocks), <<>>)
         IN  IF made.err # "none"
             THEN [err |-> made.err, rows |-> grid_blocks]
             ELSE make_blocks_from(i + Len(made.row),
                                   Append(grid_blocks, made.row))

\* EEImageCollectionGrid.make_blocks
make_blocks == make_blocks_from(0, <<>>)

\* the first test of EEImageCollectionGrid.__init__
EEGrid_init_raises ==
    /\ arg.n_columns = NoNumber
    /\ arg.n_rows = NoNumber
    /\ arg.image_dimensions = NoNumber

\* the blocks of the rows: an EEImageBlock of image_dimensions each
blocks_of(rows) ==
    [r \in DOMAIN rows |->
        [c \in DOMAIN rows[r] |-> Child(image_dimensions, image_dimensions)]]

\* the caller holds the arguments, no object exists yet
InitEEGrid ==
    /\ arg \in EEGridArgs
    /\ pc = "new"
    /\ blocks = <<>>
    /\ x_space = DEFAULT_SPACE
    /\ y_space = DEFAULT_SPACE
    /\ blocklist = <<>>
    /\ proxy_block = <<0, 0>>
    /\ rgb = <<>>
    /\ NoText
    /\ second_row = NoSecond
    /\ NoNet
    /\ background_color = COMMON["white"]
    /\ background_opacity = <<1, 1>>
    /\ opacity_given = TRUE
    /\ size = <<0, 0>>
    /\ width = 0
    /\ height = 0
    /\ image = NoImage
    /\ element = NoImage
    /\ position = NoPosition
    /\ fit_block = FALSE
    /\ keep_proportion = FALSE
    /\ op = "EEImageCollectionGrid"
    /\ ret = NoValue
    /\ err = "none"

eeGridFrame ==
    /\ UNCHANGED <<x_space, y_space>>
    /\ UNCHANGED otherVars
    /\ UNCHANGED <<background_color, background_opacity, opacity_given>>

\* EEImageCollectionGrid.__init__: the test of the arguments, make_blocks()
\* and Grid.__init__ on the blocks, with size = dimensions
EEGridInit ==
    /\ pc = "new"
    /\ op' = "__init__"
    /\ eeGridFrame
    /\ IF EEGrid_init_raises \/ make_blocks.err # "none"
       THEN /\ pc' = "failed"
            /\ err' = IF EEGrid_init_raises THEN "ValueError"
                      ELSE make_blocks.err
            /\ ret' = NoValue
            /\ UNCHANGED <<blocks, size, width, height>>
            /\ UNCHANGED imageVars
       ELSE /\ pc' = "ready"
            /\ err' = "none"
            /\ ret' = make_blocks.rows
            /\ blocks' = blocks_of(make_blocks.rows)
            /\ image' = grid_image'.canvas
            /\ element' = grid_image'.canvas
            /\ size' = GRID_DIMENSIONS
            /\ width' = GRID_DIMENSIONS[1]
            /\ height' = GRID_DIMENSIONS[2]
            /\ position' = NamedPos("center-center")
            /\ fit_block' = TRUE
            /\ keep_proportion' = TRUE

\* read of EEImageCollectionGrid.n_columns
ReadNColumns ==
    /\ pc = "ready"
    /\ op' = "n_columns"
    /\ ret' = <<grid_n_columns>>
    /\ err' = "none"
    /\ UNCHANGED <<blocks, pc, size, width, height>>
    /\ UNCHANGED imageVars
    /\ eeGridFrame

\* read of EEImageCollectionGrid.n_rows
ReadNRows ==
    /\ pc = "ready"
    /\ op' = "n_rows"
    /\ ret' = <<n_rows>>
    /\ err' = "none"
    /\ UNCHANGED <<blocks, pc, size, width, height>>
    /\ UNCHANGED imageVars
    /\ eeGridFrame

\* call of EEImageCollectionGrid.make_blocks()
CallMakeBlocks ==
    /\ pc = "ready"
    /\ op' = "make_blocks"
    /\ err' = make_blocks.err
    /\ ret' = IF make_blocks.err = "none" THEN make_blocks.rows ELSE NoValue
    /\ UNCHANGED <<blocks, pc, size, width, height>>
    /\ UNCHANGED imageVars
    /\ eeGridFrame

NextEEGrid ==
    \/ EEGridInit
    \/ ReadNColumns
    \/ ReadNRows
    \/ CallMakeBlocks
    \/ (pc = "ready" /\ ReadImage)

SpecEEGrid == InitEEGrid /\ [][NextEEGrid]_vars

\* ------------------------------------------------------------------------
\* helpers.py: download_file; image.py: from_eeimage
\* ------------------------------------------------------------------------
MaxRequests == 20

\* the status codes the server answers with
StatusCodes == {200, 400, 404, 500, 503}

\* the functions that fetch
Fetchers == {"download_file", "from_eeimage"}

\* a caller is about to call one of the functions
InitFetch ==
    /\ arg \in {[fn |-> f] : f \in Fetchers}
    /\ pc = "new"
    /\ requests = 0
    /\ status_code = 0
    /\ blocks = <<>>
    /\ x_space = 0
    /\ y_space = 0
    /\ blocklist = <<>>
    /\ proxy_block = <<0, 0>>
    /\ rgb = <<>>
    /\ NoText
    /\ second_row = NoSecond
    /\ background_color = <<>>
    /\ background_opacity = DEFAULT_OPACITY
    /\ opacity_given = FALSE
    /\ size = <<0, 0>>
    /\ width = 0
    /\ height = 0
    /\ image = NoImage
    /\ element = NoImage
    /\ position = NoPosition
    /\ fit_block = FALSE
    /\ keep_proportion = FALSE
    /\ op = "call"
    /\ ret = NoValue
    /\ err = "none"

fetchFrame ==
    /\ UNCHANGED blockVars
    /\ UNCHANGED imageVars
    /\ UNCHANGED <<blocks, x_space, y_space>>
    /\ UNCHANGED <<blocklist, proxy_block, rgb, arg, textVars, second_row>>

\* download_file: response = requests.get(url, stream=True) before the loop
DownloadGet ==
    /\ arg.fn = "download_file"
    /\ pc = "new"
    /\ requests' = requests + 1
    /\ status_code' \in StatusCodes
    /\ pc' = "while"
    /\ op' = "requests.get"
    /\ ret' = NoValue
    /\ err' = "none"
    /\ fetchFrame

\* download_file: a pass of `while code != 200` that asks again
DownloadGetAgain ==
    /\ arg.fn = "download_file"
    /\ pc = "while"
    /\ status_code # 200
    /\ status_code # 400
    /\ requests < MaxRequests
    /\ requests' = requests + 1
    /\ status_code' \in StatusCodes
    /\ pc' = "while"
    /\ op' = "requests.get"
    /\ ret' = NoValue
    /\ err' = "none"
    /\ fetchFrame

\* download_file: `if code == 400: return None`
DownloadReturnNone ==
    /\ arg.fn = "download_file"
    /\ pc = "while"
    /\ status_code = 400
    /\ pc' = "done"
    /\ op' = "download_file"
    /\ ret' = <<"None">>
    /\ err' = "none"
    /\ UNCHANGED netVars
    /\ fetchFrame

\* download_file: the loop is left, the file is written and returned
DownloadWrite ==
    /\ arg.fn = "download_file"
    /\ pc = "while"
    /\ status_code = 200
    /\ pc' = "done"
    /\ op' = "download_file"
    /\ ret' = <<"handle">>
    /\ err' = "none"
    /\ UNCHANGED netVars
    /\ fetchFrame

\* from_eeimage: one requests.get; an answer that is not 200 OK raises
\* RuntimeError
FromEEImage ==
    /\ arg.fn = "from_eeimage"
    /\ pc = "new"
    /\ requests' = requests + 1
    /\ status_code' \in StatusCodes
    /\ op' = "from_eeimage"
    /\ IF status_code' # 200
       THEN pc' = "failed" /\ ret' = NoValue /\ err' = "RuntimeError"
       ELSE pc' = "done" /\ ret' = <<"Image">> /\ err' = "none"
    /\ fetchFrame

NextFetch ==
    \/ DownloadGet
    \/ DownloadGetAgain
    \/ DownloadReturnNone
    \/ DownloadWrite
    \/ FromEEImage

SpecFetch == InitFetch /\ [][NextFetch]_vars

\* every call of requests.get returns, and the function goes on
FairSpecFetch == SpecFetch /\ WF_vars(NextFetch)

\* ------------------------------------------------------------------------
\* strips.py: SimpleStrip
\* ------------------------------------------------------------------------
\* the default of the parameter x_space of SimpleStrip.__init__
STRIP_X_SPACE == 15

\* SimpleStrip.images raises ValueError: max() of no row at all
images_raises == blocks = <<>>

\* max_cols of SimpleStrip.images
max_cols == Max({Len(blocks[r]) : r \in DOMAIN blocks})

\* SimpleStrip.images: every row filled with None up to max_cols
images ==
    [r \in DOMAIN blocks |->
        [c \in 1..max_cols |->
            IF c <= Len(blocks[r]) THEN blocks[r][c] ELSE NoneCell]]

\* the heights of the images of a row (rows are counted from 0)
row_sizes(row) ==
    {images[row + 1][c].height :
        c \in {c \in 1..max_cols : ~images[row + 1][c].isnone}}

\* SimpleStrip.row_size raises ValueError on max([])
row_size_raises(row) == row_sizes(row) = {}

\* SimpleStrip.row_size
row_size(row) == Max(row_sizes(row))

\* the widths of the images of a column (columns are counted from 0)
column_sizes(column) ==
    {images[r][column + 1].width :
        r \in {r \in DOMAIN images : ~images[r][column + 1].isnone}}

\* SimpleStrip.column_size raises ValueError on max([])
column_size_raises(column) == column_sizes(column) = {}

\* SimpleStrip.column_size
column_size(column) == Max(column_sizes(column))

\* sum(i.size[0] for i in row if i is not None) over the first n cells
RECURSIVE row_width(_, _)
row_width(r, n) ==
    IF n = 0 THEN 0
    ELSE row_width(r, n - 1)
             + (IF images[r][n].isnone THEN 0 ELSE images[r][n].width)

\* SimpleStrip.width: the widest sum of a row, and the gaps
SimpleStrip_width ==
    Max({row_width(r, max_cols) : r \in DOMAIN images})
        + x_space * (max_cols - 1)

\* SimpleStrip.height raises: a row without an image
SimpleStrip_height_raises == \E r \in DOMAIN images : row_size_raises(r - 1)

RECURSIVE sum_row_sizes(_)
sum_row_sizes(n) ==
    IF n = 0 THEN 0 ELSE sum_row_sizes(n - 1) + row_size(n - 1)

RECURSIVE sum_column_sizes(_)
sum_column_sizes(n) ==
    IF n = 0 THEN 0 ELSE sum_column_sizes(n - 1) + column_size(n - 1)

\* SimpleStrip.height
SimpleStrip_height == sum_row_sizes(Len(images)) + y_space * (Len(images) - 1)

\* SimpleStrip.background_size
background_size == <<SimpleStrip_width, SimpleStrip_height>>

\* SimpleStrip.position(x, y) raises: a column before x without an image,
\* or a row before y without an image
position_raises(x, y) ==
    \/ \E i \in 0..(x - 1) : column_size_raises(i)
    \/ \E i \in 0..(y - 1) : row_size_raises(i)

\* SimpleStrip.position(x, y)
SimpleStrip_position(x, y) ==
    <<sum_column_sizes(x) + x_space * x, sum_row_sizes(y) + y_space * y>>

\* the cells of the array that hold an image, as <<x, y>> counted from 0
image_cells ==
    {cell \in {<<c - 1, r - 1>> : c \in 1..max_cols, r \in DOMAIN images} :
        ~images[cell[2] + 1][cell[1] + 1].isnone}

\* SimpleStrip.image raises ValueError
SimpleStrip_image_raises ==
    \/ hex_raises(background_opacity)
    \/ images_raises
    \/ SimpleStrip_height_raises
    \/ \E cell \in image_cells : position_raises(cell[1], cell[2])

\* SimpleStrip.image: the canvas and what is pasted on it
SimpleStrip_image ==
    [canvas |-> background_size,
     pastes |-> {[at |-> SimpleStrip_position(cell[1], cell[2]),
                  size |-> <<images[cell[2] + 1][cell[1] + 1].width,
                             images[cell[2] + 1][cell[1] + 1].height>>] :
                    cell \in image_cells}]

\* SimpleStrip(images, x_space=...), with the default background
InitStrip ==
    /\ blocks \in GridArgs
    /\ x_space \in {MaxSpace, STRIP_X_SPACE}
    /\ y_space = DEFAULT_SPACE
    /\ pc = "ready"
    /\ NoOther
    /\ background_color = COMMON["white"]
    /\ background_opacity = DEFAULT_OPACITY
    /\ opacity_given = FALSE
    /\ size = <<0, 0>>
    /\ width = 0
    /\ height = 0
    /\ image = NoImage
    /\ element = NoImage
    /\ position = NoPosition
    /\ fit_block = FALSE
    /\ keep_proportion = FALSE
    /\ op = "SimpleStrip"
    /\ ret = NoValue
    /\ err = "none"

stripFrame ==
    /\ UNCHANGED <<blockVars, imageVars, gridVars>>
    /\ UNCHANGED otherVars

\* read of SimpleStrip.width
ReadStripWidth ==
    /\ op' = "width"
    /\ IF images_raises
       THEN ret' = NoValue /\ err' = "ValueError"
       ELSE ret' = <<SimpleStrip_width>> /\ err' = "none"
    /\ stripFrame

\* read of SimpleStrip.height
ReadStripHeight ==
    /\ op' = "height"
    /\ IF images_raises \/ SimpleStrip_height_raises
       THEN ret' = NoValue /\ err' = "ValueError"
       ELSE ret' = <<SimpleStrip_height>> /\ err' = "none"
    /\ stripFrame

\* call of SimpleStrip.position(x, y), of a cell of the array
CallPosition(x, y) ==
    /\ ~images_raises
    /\ x < max_cols
    /\ y < Len(images)
    /\ op' = "position"
    /\ IF position_raises(x, y)
       THEN ret' = NoValue /\ err' = "ValueError"
       ELSE ret' = SimpleStrip_position(x, y) /\ err' = "none"
    /\ stripFrame

\* read of SimpleStrip.image
ReadStripImage ==
    /\ op' = "image"
    /\ IF SimpleStrip_image_raises
       THEN ret' = NoValue /\ err' = "ValueError"
       ELSE ret' = SimpleStrip_image /\ err' = "none"
    /\ stripFrame

NextStrip ==
    \/ ReadStripWidth
    \/ ReadStripHeight
    \/ \E x \in 0..MaxCols, y \in 0..MaxRows : CallPosition(x, y)
    \/ ReadStripImage

SpecStrip == InitStrip /\ [][NextStrip]_vars

\* ------------------------------------------------------------------------
\* blocks.py: a block that is read, an ImageBlock or a RowBlock
\* ------------------------------------------------------------------------
\* the object is a RowBlock: it has no position
IsRowBlock == position = NoPosition

InitTree == InitImage \/ InitRow

NextTree ==
    \/ (~IsRowBlock /\ NextImage)
    \/ (IsRowBlock /\ NextRow)

SpecTree == InitTree /\ [][NextTree]_vars

\* ------------------------------------------------------------------------
\* colors.py: a Color instance
\* ------------------------------------------------------------------------
MaxChannel == 1

\* channel values: small ones, the ends of the range, the values around a
\* change of hexadecimal digit and the 165 of orange
Channels == (0..MaxChannel) \cup {15, 16, 127, 128, 165, 254, 255}

\* opacities passed to Color.hex: exact binary fractions of [0, 1], and
\* -0.01 and 1.01
HexOpacities == Opacities \cup {<<1, 4>>, <<3, 4>>}

\* the fields of the objects of the other classes do not exist
NoBlock ==
    /\ background_color = <<>>
    /\ background_opacity = DEFAULT_OPACITY
    /\ opacity_given = FALSE
    /\ size = <<0, 0>>
    /\ width = 0
    /\ height = 0
    /\ image = NoImage
    /\ element = NoImage
    /\ position = NoPosition
    /\ fit_block = FALSE
    /\ keep_proportion = FALSE
    /\ NoGrid
    /\ blocklist = <<>>
    /\ proxy_block = <<0, 0>>

\* Color.__init__(red, green, blue) with channels in 0..255
InitColor ==
    /\ rgb \in Channels \X Channels \X Channels
    /\ arg = <<>>
    /\ NoText
    /\ second_row = NoSecond
    /\ NoNet
    /\ NoBlock
    /\ op = "Color"
    /\ ret = NoValue
    /\ err = "none"

colorFrame == UNCHANGED <<blockVars, imageVars, gridVars, otherVars>>

\* call of Color.hex(opacity)
CallHex(opacity) ==
    /\ op' = "hex"
    /\ IF hex_raises(opacity)
       THEN ret' = [opacity |-> opacity, val |-> <<>>] /\ err' = "ValueError"
       ELSE ret' = [opacity |-> opacity, val |-> hex(rgb, opacity)]
            /\ err' = "none"
    /\ colorFrame

\* call of the class method Color.from_hex(hex_color); the new Color is
\* the value returned
CallFromHex(hex_color) ==
    /\ op' = "from_hex"
    /\ ret' = [arg |-> Arg("str", hex_color, <<>>),
               val |-> from_hex(hex_color).val]
    /\ err' = from_hex(hex_color).err
    /\ colorFrame

\* Color.hex, and Color.from_hex of the string Color.hex returned
NextColor ==
    \/ \E opacity \in HexOpacities : CallHex(opacity)
    \/ (op = "hex" /\ err = "none" /\ CallFromHex(ret.val))

SpecColor == InitColor /\ [][NextColor]_vars

\* ------------------------------------------------------------------------
\* colors.py: from_hex and create on the arguments of a caller
\* ------------------------------------------------------------------------
MaxHexLen == 7

\* the characters of the strings given to from_hex: the prefix, two
\* hexadecimal digits and a letter that is no hexadecimal digit
HexChars == {"#", "1", "F", "g"}

HexArgs == UNION {[1..n -> HexChars] : n \in 0..MaxHexLen}

\* the arguments given to create: names and hexadecimal strings, lists and
\* tuples of numbers, Color instances and values of other types
CreateArgs ==
    {Arg("str", v, <<>>) : v \in {<<"r", "e", "d">>, <<"R", "e", "d">>,
                                  <<"#", "F", "F", "A", "5", "0", "0">>,
                                  <<"f", "f", "f">>, <<"g", "r", "e", "y">>,
                                  <<>>}}
      \cup {Arg(k, <<>>, v) : k \in {"list", "tuple"},
                              v \in {<<255, 165, 0>>, <<0, 0, 0>>,
                                     <<256, 0, 0>>, <<0, -1, 0>>, <<1, 2>>,
                                     <<1, 2, 3, 4>>, <<>>}}
      \cup {Arg("Color", <<>>, COMMON[n]) : n \in ColorNames}
      \cup {Arg("int", <<>>, <<255>>), Arg("NoneType", <<>>, <<>>),
            Arg("dict", <<>>, <<>>)}

\* the module colors after import, and the argument a caller is about to
\* pass to from_hex or create
InitColors ==
    /\ rgb = <<>>
    /\ arg \in {Arg("str", h, <<>>) : h \in HexArgs} \cup CreateArgs
    /\ NoText
    /\ second_row = NoSecond
    /\ NoNet
    /\ NoBlock
    /\ op = "import"
    /\ ret = NoValue
    /\ err = "none"

\* call of colors.create(color)
CallCreate(color) ==
    /\ op' = "create"
    /\ ret' = [arg |-> color, val |-> create(color).val]
    /\ err' = create(color).err
    /\ colorFrame

NextColors ==
    \/ (arg.kind = "str" /\ CallFromHex(arg.chars))
    \/ CallCreate(arg)

SpecColors == InitColors /\ [][NextColors]_vars

\* ------------------------------------------------------------------------
\* Properties of ImageBlock (checked under SpecImage)
\* ------------------------------------------------------------------------
\* the position is one of the nine named anchors
IsAnchor == position.isstr /\ position.name \in Anchors

\* the source exceeds the block in at least one dimension
Exceeds == image[1] > size[1] \/ image[2] > size[2]

\* contain-fit of a source S in a block B: S scaled by min(Bw/Sw, Bh/Sh),
\* both extents floored
ContainFit(S, B) ==
    IF B[1] * S[2] <= B[2] * S[1]
    THEN <<B[1], (S[2] * B[1]) \div S[1]>>
    ELSE <<(S[1] * B[2]) \div S[2], B[2]>>

\* C1: with fit_block the element returned for a named anchor is never
\* wider or higher than the block.
C1_ElementWithinBlock ==
    (op = "element" /\ err = "none" /\ fit_block /\ IsAnchor)
        => (ret[1] <= size[1] /\ ret[2] <= size[2])

\* C2: with fit_block and keep_proportion a source that exceeds the block
\* is resized to its contain-fit in the block; a 1000x500 source in a
\* 500x500 block gives (500, 250).
C2_ContainFit ==
    (op = "element" /\ err = "none" /\ fit_block /\ keep_proportion
        /\ IsAnchor /\ Exceeds)
        => ret = ContainFit(image, size)

\* C3: with fit_block and without keep_proportion a source that exceeds the
\* block is resized to exactly the size of the block.
C3_DeformToBlock ==
    (op = "element" /\ err = "none" /\ fit_block /\ ~keep_proportion
        /\ IsAnchor /\ Exceeds)
        => ret = size

AnchorFactor(n) ==
    <<CASE n \in {"top-left", "center-left", "bottom-left"} -> 0
        [] n \in {"top-center", "center-center", "bottom-center"} -> 1
        [] OTHER -> 2,
      CASE n \in {"top-left", "top-center", "top-right"} -> 0
        [] n \in {"center-left", "center-center", "center-right"} -> 1
        [] OTHER -> 2>>

\* C5: the offset at which the element is pasted is (ax * x_space,
\* ay * y_space) truncated, with x_space and y_space the block's extent less
\* that of the element actually pasted.
C5_XYFromPastedElement ==
    (op = "image" /\ err = "none" /\ IsAnchor)
        => ret.at =
             <<TruncDiv(AnchorFactor(position.name)[1]
                           * (size[1] - ret.pasted[1]), 2),
               TruncDiv(AnchorFactor(position.name)[2]
                           * (size[2] - ret.pasted[2]), 2)>>

\* ------------------------------------------------------------------------
\* Properties of Block (checked under SpecBlock)
\* ------------------------------------------------------------------------
\* C6: after any sequence of assignments to size, width and height (and
\* set_size) the block has size = (width, height).
C6_SizeIsWidthHeight == size = <<width, height>>

\* C7: a Block built without a background_opacity is fully opaque: its
\* background_hex is "#RRGGBB" of its colour followed by "FF".
C7_DefaultOpaque ==
    (op = "background_hex" /\ ~opacity_given)
        => (err = "none"
            /\ ret = <<"#">> \o Hex2(background_color[1])
                          \o Hex2(background_color[2])
                          \o Hex2(background_color[3]) \o <<"F", "F">>)

\* ------------------------------------------------------------------------
\* Properties of Grid (checked under SpecGrid)
\* ------------------------------------------------------------------------
RECURSIVE SumColumnWidths(_)
SumColumnWidths(c) ==
    IF c = 0 THEN 0 ELSE SumColumnWidths(c - 1) + column_width(c - 1)

RECURSIVE SumRowHeights(_)
SumRowHeights(r) ==
    IF r = 0 THEN 0 ELSE SumRowHeights(r - 1) + row_height(r - 1)

\* C8: the size of a Grid is the sum of its column widths plus x_space for
\* each of the (columns - 1) gaps, by the sum of its row heights plus
\* y_space for each of the (rows - 1) gaps.
C8_GapsBetweenOnly ==
    (pc = "ready" /\ op = "grid_size" /\ err = "none")
        => ret = <<SumColumnWidths(n_columns) + x_space * (n_columns - 1),
                   SumRowHeights(Len(blocks))
                       + y_space * (Len(blocks) - 1)>>

\* the non-null blocks of row n and of column n (rows of length <= n have
\* no cell in column n)
RowCells(n) ==
    {blocks[n + 1][c] : c \in DOMAIN blocks[n + 1]} \ {NoneCell}

ColumnCells(n) ==
    {blocks[r][n + 1] : r \in {r \in DOMAIN blocks : n + 1 <= Len(blocks[r])}}
        \ {NoneCell}

\* C9: row_height(n) is the largest height of the non-null children of
\* row n; column_width(n) is the largest width of the non-null children at
\* index n of the rows that have an index n.
C9_RowHeightColumnWidth ==
    /\ (pc = "ready" /\ op = "row_height" /\ err = "none")
          => /\ \E b \in RowCells(ret.n) : b.height = ret.val
             /\ \A b \in RowCells(ret.n) : b.height <= ret.val
    /\ (pc = "ready" /\ op = "column_width" /\ err = "none")
          => /\ \E b \in ColumnCells(ret.n) : b.width = ret.val
             /\ \A b \in ColumnCells(ret.n) : b.width <= ret.val

C9_Witness ==
    /\ pc = "ready"
    /\ op = "column_width"
    /\ err = "none"
    /\ blocks = <<<<Child(100, 50), Child(200, 80)>>, <<Child(150, 60)>>>>
    /\ ret = [n |-> 0, val |-> 150]

\* two pasted rasters share no pixel
Apart(a, b) ==
    \/ a.at[1] + a.size[1] <= b.at[1]
    \/ b.at[1] + b.size[1] <= a.at[1]
    \/ a.at[2] + a.size[2] <= b.at[2]
    \/ b.at[2] + b.size[2] <= a.at[2]

\* the number of cells of the rows before row r
RECURSIVE CellsBefore(_)
CellsBefore(r) == IF r = 0 THEN 0 ELSE CellsBefore(r - 1) + Len(blocks[r])

NoneBesideBlocks ==
    /\ blocks # <<>>
    /\ \E r \in DOMAIN blocks : \E c \in DOMAIN blocks[r] :
          blocks[r][c].isnone /\ RowCells(r - 1) # {}
    /\ \A r \in DOMAIN blocks : RowCells(r - 1) # {}
    /\ \A c \in 0..(n_columns - 1) : ColumnCells(c) # {}

\* C11: a Grid with a None cell beside non-null cells is constructed and
\* rendered without error, and every non-null cell, also the ones after the
\* None in its row, is pasted at the offset of its column.
C11_NoneCellsRendered ==
    (op = "__init__" /\ pc # "new" /\ NoneBesideBlocks)
        => /\ pc = "ready"
           /\ err = "none"
           /\ \A r \in DOMAIN blocks : \A c \in DOMAIN blocks[r] :
                 ~blocks[r][c].isnone
                    => \E i \in DOMAIN ret.pastes :
                          /\ ret.pastes[i].row = r - 1
                          /\ ret.pastes[i].col = c - 1
                          /\ ret.pastes[i].at[1] =
                                SumColumnWidths(c - 1) + (c - 1) * x_space

\* ------------------------------------------------------------------------
\* Properties of RowBlock (checked under SpecRow)
\* ------------------------------------------------------------------------
\* every entry of the list is a block (no None)
AllBlocks == \A i \in DOMAIN blocklist : ~blocklist[i].isnone

\* the widths of the first k blocks of the list
RECURSIVE SumWidths(_)
SumWidths(k) == IF k = 0 THEN 0 ELSE SumWidths(k - 1) + blocklist[k].width

\* C12: a RowBlock of n blocks has size (sum of the widths + x_space * (n-1),
\* max of the heights); widths 100, 200, 150, height 100 and space 10 give
\* (470, 100).  Its image pastes block k (counted from 0) at
\* x = the widths of the blocks before it + k * x_space and y = 0.
C12_RowSizeAndOffsets ==
    /\ (op = "size" /\ AllBlocks /\ blocklist # <<>>)
          => /\ err = "none"
             /\ ret[1] = SumWidths(Len(blocklist))
                            + x_space * (Len(blocklist) - 1)
             /\ \E i \in DOMAIN blocklist : blocklist[i].height = ret[2]
             /\ \A i \in DOMAIN blocklist : blocklist[i].height <= ret[2]
    /\ (op = "image" /\ err = "none" /\ AllBlocks)
          => /\ Len(ret.pastes) = Len(blocklist)
             /\ \A k \in DOMAIN blocklist :
                   ret.pastes[k].at =
                       <<SumWidths(k - 1) + (k - 1) * x_space, 0>>

C12_Witness ==
    /\ op = "size"
    /\ err = "none"
    /\ x_space = 10
    /\ blocklist = <<RowChild(100, 100, "RGBA"), RowChild(200, 100, "RGBA"),
                     RowChild(150, 100, "RGBA")>>
    /\ ret = <<470, 100>>

\* C13: the size of a RowBlock built from an empty list is (0, 0); reading
\* it raises nothing.
C13_EmptyRowZeroSize ==
    (op = "size" /\ blocklist = <<>>) => (err = "none" /\ ret = <<0, 0>>)

\* an entry of the list has a pixel mode other than the mode of the row
MixedModes ==
    \E i \in DOMAIN blocklist :
        ~blocklist[i].isnone /\ blocklist[i].mode # ROW_MODE

\* C14: reading the effective block list of a row that holds a block of
\* another pixel mode fails.
C14_MixedModesFail ==
    (op = "final_blocklist" /\ MixedModes) => err # "none"

\* ------------------------------------------------------------------------
\* Properties of Color (checked under SpecColor)
\* ------------------------------------------------------------------------
\* "#RRGGBB" of a colour, two upper-case hexadecimal digits per channel
ChannelDigits(c) == <<"#">> \o Hex2(c[1]) \o Hex2(c[2]) \o Hex2(c[3])

Round255(o) == (2 * 255 * o[1] + o[2]) \div (2 * o[2])

\* C16: the alpha byte of hex(opacity) is round(opacity * 255); opacity 0.5
\* gives 128, "80".
C16_AlphaRounded ==
    (op = "hex" /\ err = "none")
        => ret.val = ChannelDigits(rgb) \o Hex2(Round255(ret.opacity))

\* the opacity a / b lies in [0, 1]
InRange(o) == 0 <= o[1] /\ o[1] <= o[2]

\* C17: hex(opacity) fails for every opacity below 0 or above 1 and
\* succeeds for every other one, 0.0 and 1.0 included; a call of hex never
\* changes the colour.
C17_OpacityRange ==
    /\ [](op = "hex" => (err = "none" <=> InRange(ret.opacity)))
    /\ [][op' = "hex" => rgb' = rgb]_vars

C17_Witness ==
    /\ op = "hex"
    /\ err = "ValueError"
    /\ ret.opacity = <<101, 100>>
    /\ ret.val = <<>>

\* ------------------------------------------------------------------------
\* Properties of from_hex and create (checked under SpecColors)
\* ------------------------------------------------------------------------
\* every character of s is a hexadecimal digit
AllHexDigits(s) == \A i \in DOMAIN s : HexValue(s[i]) >= 0

\* s without one leading "#"
WithoutPrefix(s) == IF s # <<>> /\ s[1] = "#" THEN Tail(s) ELSE s

\* the number of leading "#" of s
RECURSIVE Hashes(_)
Hashes(s) == IF s # <<>> /\ s[1] = "#" THEN 1 + Hashes(Tail(s)) ELSE 0

\* C18 as stated: from_hex accepts exactly the strings that, after an
\* optional leading "#", are 3 or 6 hexadecimal digits.
C18_ExactlyThreeOrSix ==
    (op = "from_hex")
        => (err = "none"
              <=> /\ Len(WithoutPrefix(ret.arg.chars)) \in {3, 6}
                  /\ AllHexDigits(WithoutPrefix(ret.arg.chars)))

\* C18 amended: from_hex drops every leading "#" and reads at most six of
\* the characters left; it succeeds exactly when 3 or at least 6 characters
\* are left and the ones it reads are hexadecimal digits.
C18_ThreeOrAtLeastSix ==
    (op = "from_hex")
        => LET s == ret.arg.chars
               left == Len(s) - Hashes(s)
               read == {i \in DOMAIN s :
                           Hashes(s) < i /\ i <= Hashes(s) + 6}
           IN  err = "none"
                 <=> /\ left = 3 \/ left >= 6
                     /\ \A i \in read : HexValue(s[i]) >= 0

C18_Witness ==
    /\ op = "from_hex"
    /\ err = "none"
    /\ ret.arg.chars = <<"1", "1", "1", "1", "1", "1", "g">>
    /\ ret.val = <<17, 17, 17>>

\* C19: create returns a Color for a colour name, for a list or a tuple of
\* three channel values and for a Color (the same one), and fails for an
\* argument of any other type.
C19_CreateDispatch ==
    (op = "create")
        => /\ (ret.arg.kind = "str"
                  /\ ret.arg.chars \in {<<"r", "e", "d">>, <<"R", "e", "d">>})
                 => (err = "none" /\ ret.val = <<255, 0, 0>>)
           /\ (ret.arg.kind \in {"list", "tuple"} /\ Len(ret.arg.nums) = 3
                  /\ \A i \in 1..3 : ret.arg.nums[i] \in 0..255)
                 => (err = "none" /\ ret.val = ret.arg.nums)
           /\ ret.arg.kind = "Color"
                 => (err = "none" /\ ret.val = ret.arg.nums)
           /\ ret.arg.kind \notin {"str", "list", "tuple", "Color"}
                 => err # "none"

\* ------------------------------------------------------------------------
\* Properties of ImageBlock.position (checked under SpecImage)
\* ------------------------------------------------------------------------
\* the nine recognised anchor names
NineAnchors ==
    {v \o "-" \o h : v \in {"top", "center", "bottom"},
                     h \in {"left", "center", "right"}}

\* C20: with a position that is a string other than the nine anchor names,
\* a read of xy, of element or of image raises KeyError and returns
\* nothing; no placement is used in its place.
C20_InvalidPositionRaises ==
    (op \in {"xy", "element", "image"} /\ position.isstr
        /\ position.name \notin NineAnchors)
        => (err = "KeyError" /\ ret = NoValue)

C20_Witness ==
    /\ op = "image"
    /\ position = NamedPos("middle")
    /\ err = "KeyError"
    /\ ret = NoValue

\* ------------------------------------------------------------------------
\* TextBlock: the raster after a change of font
\* ------------------------------------------------------------------------
\* C21: after a font is assigned to a TextBlock, the next read of element
\* or image shows the text drawn with the new font, at the extents the text
\* has in that font.
C21_FontRedrawn ==
    (op \in {"element", "image"} /\ err = "none") =>
        /\ ret.drawn_with = font
        /\ image = create_text_image(font)

\* ------------------------------------------------------------------------
\* Grid: the image after a change of a child
\* ------------------------------------------------------------------------
\* C22: the image of a Grid is computed from the current state of its
\* children at every read: the raster pasted on the block is the grid as
\* grid_image() lays it out now.
C22_ImageFromCurrentChildren ==
    (pc = "ready" /\ op = "image" /\ err = "none") =>
        /\ image = grid_image.canvas
        /\ ret.pasted = grid_image.canvas

C24_NoSharedState ==
    [][op' \in {"height", "final_blocklist", "width", "size", "image"} =>
          /\ second_row' = second_row
          /\ second_proxy_size' = second_proxy_size]_vars

\* ------------------------------------------------------------------------
\* Block: when the opacity is validated
\* ------------------------------------------------------------------------
\* C25: a Block never holds a background_opacity outside [0, 1], whether
\* it was given to the constructor or assigned, and a read of
\* background_hex or image of a Block never raises for the opacity.
C25_OpacityValidatedAtOnce ==
    /\ InRange(background_opacity)
    /\ (op \in {"background_hex", "image"} => err # "ValueError")

\* ------------------------------------------------------------------------
\* EEImageBlock: the size of the block
\* ------------------------------------------------------------------------
\* C26: the size given to EEImageBlock is the size of the block, and the
\* size is taken from dimensions only when size is None: with dimensions
\* (500, 500) and size (1000, 1000) the block is 1000 x 1000 and holds a
\* 500 x 500 image.
C26_GivenSizeIsBlockSize ==
    (pc = "ready" /\ arg.size # NoSize) => size = arg.size

\* ------------------------------------------------------------------------
\* EEImageCollectionGrid: the numbers of columns and rows
\* ------------------------------------------------------------------------
\* C27: with n_columns given and n_rows None the number of rows follows
\* from the number of images, and the other way round; with both None the
\* grid is built all the same and n_columns is 3.
C27_ColumnsAndRowsDerived ==
    /\ (pc # "new" /\ arg.n_columns # NoNumber /\ arg.n_rows = NoNumber) =>
           n_rows = ceil_div(arg.n_images, arg.n_columns)
    /\ (pc # "new" /\ arg.n_columns = NoNumber /\ arg.n_rows # NoNumber) =>
           grid_n_columns = ceil_div(arg.n_images, arg.n_rows)
    /\ (pc # "new" /\ arg.n_columns = NoNumber /\ arg.n_rows = NoNumber) =>
           /\ err # "ValueError"
           /\ grid_n_columns = 3

\* ------------------------------------------------------------------------
\* EEImageCollectionGrid: make_blocks
\* ------------------------------------------------------------------------
\* the ids of the rows, one after the other
RECURSIVE Flatten(_)
Flatten(rows) ==
    IF rows = <<>> THEN <<>>
    ELSE Flatten(SubSeq(rows, 1, Len(rows) - 1)) \o rows[Len(rows)]

\* C29: when the server answers, make_blocks ends without an exception
\* for every collection of one image or more and every n_columns and
\* n_rows; its rows hold every image id once, in order, and every row has
\* one block at least and n_columns blocks at most.
C29_MakeBlocksCoversImages ==
    (pc # "new" /\ arg.answers /\ ~EEGrid_init_raises) =>
        /\ make_blocks.err = "none"
        /\ err = "none"
        /\ Flatten(make_blocks.rows) = image_ids
        /\ \A r \in DOMAIN make_blocks.rows :
              /\ Len(make_blocks.rows[r]) >= 1
              /\ Len(make_blocks.rows[r]) <= grid_n_columns

\* ------------------------------------------------------------------------
\* download_file and from_eeimage: requests
\* ------------------------------------------------------------------------
\* C28: no fetch asks twice: a fetch that failed is reported after one
\* request, and every fetch returns or raises in the end, whatever the
\* status codes of the answers.
C28_NoRetry ==
    /\ [](requests <= 1)
    /\ <>(pc \in {"done", "failed"})

\* ------------------------------------------------------------------------
\* SimpleStrip: the images inside the canvas
\* ------------------------------------------------------------------------
\* C30: every image SimpleStrip.image pastes lies inside the background
\* canvas: its position plus its size is at most the width and the height
\* of the canvas, also when the widths of a column differ between rows.
C30_PastesInsideCanvas ==
    (op = "image" /\ err = "none") =>
        \A p \in ret.pastes :
            /\ p.at[1] + p.size[1] <= ret.canvas[1]
            /\ p.at[2] + p.size[2] <= ret.canvas[2]

====
